---- MODULE Spec2Model ----
(***************************************************************************)
(* pelican_bibtex.add_publications as a state machine.                     *)
(*                                                                         *)
(* The plugin reads the PUBLICATIONS_SRC setting, imports pybtex, parses   *)
(* the bibliography file, walks the entries in the order the pybtex        *)
(* formatter yields them, builds one record per entry and stores the list  *)
(* in generator.context['publications'].                                   *)
(*                                                                         *)
(* pybtex (parser, formatter, writer, html backend) is outside the         *)
(* repository.  Its results are inputs of the model: the parsed entries,   *)
(* the order in which the formatter yields them and the text it renders    *)
(* for each are fixed per source file; whether a pybtex call made inside   *)
(* the loop fails with a PybtexError is a free choice at every iteration.  *)
(*                                                                         *)
(* Python values that may be a str or None are tagged records (Str, None). *)
(* Texts are sequences of one-character strings.                           *)
(***************************************************************************)
EXTENDS Naturals, Sequences, FiniteSets, TLC

VARIABLES
    settings,       \* generator.settings: a dict, with or without PUBLICATIONS_SRC
    pybtex_ok,      \* whether `from pybtex... import` succeeds in this invocation
    disk,           \* the file at the configured path, as parse_file finds it
    fmt_order,      \* keys in the order plain.Style().format_entries yields them
    context,        \* generator.context: a dict
    log,            \* records emitted through LOGGER
    pc,             \* position of the current invocation
    bib_items,      \* local: the parsed entries, key -> entry
    todo,           \* local: keys the formatter has not yielded yet
    publications,   \* local: the list under construction
    ctx0,           \* history: context when the current invocation started
    log0,           \* history: log when the current invocation started
    produced,       \* history: per publishing invocation, its source and stored list
    remaining       \* invocations the model still explores

vars == <<settings, pybtex_ok, disk, fmt_order, context, log, pc, bib_items,
          todo, publications, ctx0, log0, produced, remaining>>

----------------------------------------------------------------------------
(* Bounds *)

MaxEntries == 2

MaxRuns == 2

MaxLen == 4

----------------------------------------------------------------------------
(* Python values *)

Str(s) == [t |-> "str", s |-> s]

None == [t |-> "NoneType"]

IsStr(v) == v.t = "str"

EmptyDict == [k \in {} |-> None]

\* text.replace(old, new): every non-overlapping occurrence, left to right
RECURSIVE replace(_, _, _)
replace(text, old, new) ==
    IF Len(text) < Len(old) THEN text
    ELSE IF SubSeq(text, 1, Len(old)) = old
         THEN new \o replace(SubSeq(text, Len(old) + 1, Len(text)), old, new)
         ELSE <<Head(text)>> \o replace(Tail(text), old, new)

----------------------------------------------------------------------------
(* The pure functions of the module *)

get_field_Get(entry, field) ==
    IF field \in DOMAIN entry.fields THEN Str(entry.fields[field]) ELSE None

get_field(entry, field) ==
    IF field \in DOMAIN entry.fields THEN Str(entry.fields[field]) ELSE Str("")

\* entry.fields.get('year')
fields_get(entry, field) ==
    IF field \in DOMAIN entry.fields THEN Str(entry.fields[field]) ELSE None

entries ==
    [label \in {"book", "incollection", "booklet", "proceedings", "inbook",
                "article", "inproceedings", "conference", "phdthesis",
                "mastersthesis", "techreport", "manual", "misc", "unpublished"} |->
        CASE label = "book"          -> <<0, "Book">>
          [] label = "incollection"  -> <<1, "Book in a Collection">>
          [] label = "booklet"       -> <<2, "Booklet">>
          [] label = "proceedings"   -> <<3, "Proceedings">>
          [] label = "inbook"        -> <<4, "Chapter in a Book">>
          [] label = "article"       -> <<5, "Journal Articles">>
          [] label = "inproceedings" -> <<6, "Papers">>
          [] label = "conference"    -> <<7, "Papers">>
          [] label = "phdthesis"     -> <<8, "PhD Thesis">>
          [] label = "mastersthesis" -> <<9, "Master Thesis">>
          [] label = "techreport"    -> <<10, "Technical Report">>
          [] label = "manual"        -> <<11, "Manual">>
          [] label = "misc"          -> <<12, "Other Publications">>
          [] label = "unpublished"   -> <<13, "Unpublished">>]

entrytype_SharedRank(label) ==
    IF label = "conference" THEN <<6, "Papers">>
    ELSE IF label \in DOMAIN entries THEN entries[label]
    ELSE <<100, label>>

entrytype_FixedFallback(label) ==
    IF label \in DOMAIN entries THEN entries[label] ELSE <<100, "Unknown">>

entrytype(label) ==
    IF label \in DOMAIN entries THEN entries[label] ELSE <<100, label>>

\* lines 109-110: the two chained replace calls on the rendered text
prettify(text) ==
    LET t1 == replace(text, <<"\\", "{">>, <<>>)
        t2 == replace(t1, <<"\\", "}">>, <<>>)
        t3 == replace(t2, <<"{">>, <<>>)
    IN  replace(t3, <<"}">>, <<>>)

\* Writer().write_stream(BibliographyData(entries={key: entry}), buf):
\* the serialisation of exactly this one entry
write_stream(key, entry) ==
    [type |-> entry.type, key |-> key, fields |-> entry.fields]

\* lines 104-124: the dict appended for one formatter-yielded entry
make_record(key, entry, rendered) ==
    [bibtex     |-> write_stream(key, entry),
     doi        |-> get_field(entry, "doi"),
     entry      |-> entrytype(entry.type),
     key        |-> key,
     pdf        |-> get_field(entry, "pdf"),
     poster     |-> get_field(entry, "poster"),
     slides     |-> get_field(entry, "slides"),
     text       |-> prettify(rendered),
     url        |-> get_field(entry, "url"),
     note       |-> get_field(entry, "note"),
     year       |-> fields_get(entry, "year"),
     authorizer |-> get_field(entry, "authorizer")]

list_append_Front(list, item) == <<item>> \o list

\* publications.append(item)
list_append(list, item) == Append(list, item)

LOGGER_warn_NoArgs(records, msg, args) ==
    Append(records, [level |-> "WARNING", msg |-> msg, args |-> <<>>])

\* LOGGER.warn(msg, *args)
LOGGER_warn(records, msg, args) ==
    Append(records, [level |-> "WARNING", msg |-> msg, args |-> args])

store_publications_Extend(ctx, list) ==
    IF "publications" \in DOMAIN ctx
    THEN [ctx EXCEPT !["publications"] = @ \o list]
    ELSE [k \in DOMAIN ctx \cup {"publications"} |->
             IF k = "publications" THEN list ELSE ctx[k]]

\* generator.context['publications'] = publications
store_publications(ctx, list) ==
    [k \in DOMAIN ctx \cup {"publications"} |->
        IF k = "publications" THEN list ELSE ctx[k]]

----------------------------------------------------------------------------
(* What the invocation can be given *)

KeyNames == <<"k1", "k2", "k3", "k4">>

Keys == {KeyNames[i] : i \in 1..MaxEntries}

FieldNames ==
    {"doi", "pdf", "poster", "slides", "url", "note", "year", "authorizer"}

FieldValue(f) ==
    CASE f = "doi"  -> "10.1/x"
      [] f = "year" -> "2020"
      [] OTHER      -> "v"

AllFields(names) == [f \in names |-> FieldValue(f)]

Chars == {"\\", "{", "}", "a"}

Texts == UNION {[1..n -> Chars] : n \in 0..MaxLen}

KnownTags == DOMAIN entries

UnknownTags == {"unknownkind", "online", "Article", ""}

\* An entry as the parser returns it (type, fields), together with the text
\* fmt_entry.text.render(html.Backend()) gives for it.
SampleEntries ==
    { [type |-> "article", fields |-> AllFields({"doi", "year"}),
       rendered |-> <<"a">>],
      [type |-> "unknownkind", fields |-> AllFields({}),
       rendered |-> <<"\\", "{", "a", "\\", "}", "{", "a", "}">>],
      [type |-> "book", fields |-> AllFields(FieldNames),
       rendered |-> <<"{", "a", "}">>] }

FieldEntries ==
    { [type |-> "article", fields |-> AllFields(names), rendered |-> <<"a">>] :
        names \in SUBSET FieldNames }

TypedEntries ==
    { [type |-> tag, fields |-> AllFields({}), rendered |-> <<"a">>] :
        tag \in KnownTags \cup UnknownTags }

TextEntries ==
    { [type |-> "article", fields |-> AllFields({}), rendered |-> text] :
        text \in Texts }

\* bib_items.entries for a readable file: key -> entry
Bibliographies(keysets, bodies) == UNION {[ks -> bodies] : ks \in keysets}

SmallKeySets == {ks \in SUBSET Keys : Cardinality(ks) <= MaxEntries}

OneKeySets == {{KeyNames[1]}}

GoodDisks(bibs) == {[ok |-> TRUE, entries |-> b, err |-> ""] : b \in bibs}

\* a nonexistent or malformed file: parse_file raises PybtexError(err)
BadDisks ==
    { [ok |-> FALSE, entries |-> EmptyDict, err |-> e] :
        e \in {"unable to open pubs.bib", "syntax error"} }

\* the orders in which format_entries may yield the entries of a bibliography
Orders(bib) ==
    LET n == Cardinality(DOMAIN bib)
    IN  {s \in [1..n -> DOMAIN bib] : \A i, j \in 1..n : i # j => s[i] # s[j]}

NoSource == [k \in {"SITENAME"} |-> "site"]

WithSource ==
    [k \in {"SITENAME", "PUBLICATIONS_SRC"} |->
        IF k = "SITENAME" THEN "site" ELSE "pubs.bib"]

StaleEntry ==
    [type |-> "misc", fields |-> AllFields({"url"}), rendered |-> <<"a">>]

StaleList == <<make_record("old", StaleEntry, StaleEntry.rendered)>>

BaseContext == [k \in {"articles"} |-> <<>>]

Contexts ==
    { BaseContext,
      store_publications(BaseContext, <<>>),
      store_publications(BaseContext, StaleList) }

Terminal ==
    {"skipped_nosrc", "skipped_import", "skipped_parse", "published", "raised"}

Skipped == {"skipped_nosrc", "skipped_import", "skipped_parse"}

----------------------------------------------------------------------------
(* Initial states *)

InitWith(disks, runs) ==
    /\ disk \in disks \cup BadDisks
    /\ fmt_order \in Orders(disk.entries)
    /\ context \in Contexts
    /\ settings = NoSource
    /\ pybtex_ok = TRUE
    /\ log = <<>>
    /\ pc = "idle"
    /\ bib_items = EmptyDict
    /\ todo = <<>>
    /\ publications = <<>>
    /\ ctx0 = context
    /\ log0 = <<>>
    /\ produced = <<>>
    /\ remaining = runs

Init == InitWith(GoodDisks(Bibliographies(SmallKeySets, SampleEntries)), MaxRuns)

InitFields == InitWith(GoodDisks(Bibliographies(OneKeySets, FieldEntries)), 1)

InitTypes == InitWith(GoodDisks(Bibliographies(SmallKeySets, TypedEntries)), 1)

InitTexts == InitWith(GoodDisks(Bibliographies(OneKeySets, TextEntries)), 1)

----------------------------------------------------------------------------
(* The steps of add_publications *)

locals == <<bib_items, todo, publications>>

inputs == <<settings, pybtex_ok, disk, fmt_order>>

history == <<ctx0, log0, produced>>

Return ==
    /\ bib_items' = EmptyDict
    /\ todo' = <<>>
    /\ publications' = <<>>

\* the file as it is, or as an edit since the last invocation left it: one
\* entry removed
Edited(d) ==
    {d} \cup { [d EXCEPT !.entries = [k \in DOMAIN d.entries \ {gone} |-> d.entries[k]]] :
                 gone \in DOMAIN d.entries }

\* the formatter's order over the entries that are left
Reordered(order, d) ==
    LET Kept(k) == k \in DOMAIN d.entries
    IN  SelectSeq(order, Kept)

\* the host fires generator_init: add_publications(generator) is entered,
\* with the settings, the installed modules and the file of this pass
Start ==
    /\ pc \in {"idle"} \cup Terminal
    /\ remaining > 0
    /\ remaining' = remaining - 1
    /\ settings' \in {NoSource, WithSource}
    /\ pybtex_ok' \in BOOLEAN
    /\ disk' \in Edited(disk)
    /\ fmt_order' = Reordered(fmt_order, disk')
    /\ ctx0' = context
    /\ log0' = log
    /\ pc' = "start"
    /\ UNCHANGED <<context, log, locals, produced>>

SkipNoSource ==
    /\ pc = "start"
    /\ "PUBLICATIONS_SRC" \notin DOMAIN settings
    /\ pc' = "skipped_nosrc"
    /\ UNCHANGED <<inputs, context, log, locals, history, remaining>>

ImportFail ==
    /\ pc = "start"
    /\ "PUBLICATIONS_SRC" \in DOMAIN settings
    /\ ~pybtex_ok
    /\ log' = LOGGER_warn(log,
                 "pelican_bibtex failed to load dependency pybtex", <<>>)
    /\ pc' = "skipped_import"
    /\ UNCHANGED <<inputs, context, locals, history, remaining>>

ImportOk ==
    /\ pc = "start"
    /\ "PUBLICATIONS_SRC" \in DOMAIN settings
    /\ pybtex_ok
    /\ pc' = "imported"
    /\ UNCHANGED <<inputs, context, log, locals, history, remaining>>

ParseFail_Publishes ==
    /\ pc = "imported"
    /\ ~disk.ok
    /\ log' = LOGGER_warn(log, "pelican_bibtex failed to parse file %s: %s",
                 <<settings["PUBLICATIONS_SRC"], disk.err>>)
    /\ context' = store_publications(context, <<>>)
    /\ pc' = "skipped_parse"
    /\ UNCHANGED <<inputs, locals, history, remaining>>

ParseFail ==
    /\ pc = "imported"
    /\ ~disk.ok
    /\ log' = LOGGER_warn(log, "pelican_bibtex failed to parse file %s: %s",
                 <<settings["PUBLICATIONS_SRC"], disk.err>>)
    /\ pc' = "skipped_parse"
    /\ UNCHANGED <<inputs, context, locals, history, remaining>>

ParseOk ==
    /\ pc = "imported"
    /\ disk.ok
    /\ bib_items' = disk.entries
    /\ publications' = <<>>
    /\ todo' = fmt_order
    /\ pc' = "loop"
    /\ UNCHANGED <<inputs, context, log, history, remaining>>

LoopBody_WritesThrough ==
    /\ pc = "loop"
    /\ todo # <<>>
    /\ LET key == Head(todo)
           entry == bib_items[key]
       IN  publications' =
               list_append(publications, make_record(key, entry, entry.rendered))
    /\ todo' = Tail(todo)
    /\ context' = store_publications(context, publications')
    /\ UNCHANGED <<inputs, log, pc, bib_items, history, remaining>>

\* one iteration of the for loop, lines 99-124
LoopBody ==
    /\ pc = "loop"
    /\ todo # <<>>
    /\ LET key == Head(todo)
           entry == bib_items[key]
       IN  publications' =
               list_append(publications, make_record(key, entry, entry.rendered))
    /\ todo' = Tail(todo)
    /\ UNCHANGED <<inputs, context, log, pc, bib_items, history, remaining>>

\* format_entries, write_stream or render raises PybtexError for the next
\* entry; no handler encloses lines 99-124, so it leaves add_publications
LoopRaise ==
    /\ pc = "loop"
    /\ todo # <<>>
    /\ pc' = "raised"
    /\ Return
    /\ UNCHANGED <<inputs, context, log, history, remaining>>

Publish ==
    /\ pc = "loop"
    /\ todo = <<>>
    /\ context' = store_publications(context, publications)
    /\ produced' = Append(produced, [source |-> disk.entries,
                                     list |-> context'["publications"]])
    /\ pc' = "published"
    /\ Return
    /\ UNCHANGED <<inputs, log, ctx0, log0, remaining>>

Next ==
    \/ Start
    \/ SkipNoSource
    \/ ImportFail
    \/ ImportOk
    \/ ParseFail
    \/ ParseOk
    \/ LoopBody
    \/ LoopRaise
    \/ Publish

Spec == Init /\ [][Next]_vars

SpecFields == InitFields /\ [][Next]_vars

SpecTypes == InitTypes /\ [][Next]_vars

SpecTexts == InitTexts /\ [][Next]_vars

----------------------------------------------------------------------------
(* Properties *)

Published == context["publications"]

ParsedEntry(key) == disk.entries[key]

RecordKeys ==
    {"bibtex", "doi", "entry", "key", "pdf", "poster", "slides", "text", "url",
     "note", "year", "authorizer"}

DefaultedFields == {"doi", "pdf", "poster", "slides", "url", "note", "authorizer"}

ValueOrEmpty(entry, f) ==
    IF f \in DOMAIN entry.fields THEN Str(entry.fields[f]) ELSE Str("")

\* C1: an invocation that ends in a skip (setting absent, pybtex not
\* importable, parse failure) leaves the context exactly as it found it.
C1_SkipLeavesContext == pc \in Skipped => context = ctx0

C1_Witness ==
    /\ pc = "skipped_parse"
    /\ "publications" \in DOMAIN ctx0
    /\ ctx0["publications"] = StaleList

\* C2: no invocation ends with an exception leaving add_publications.
C2_NoExceptionPropagates == pc \in Terminal => pc \in Skipped \cup {"published"}

DocumentedType(tag) ==
    CASE tag = "book"          -> <<0, "Book">>
      [] tag = "incollection"  -> <<1, "Book in a Collection">>
      [] tag = "booklet"       -> <<2, "Booklet">>
      [] tag = "proceedings"   -> <<3, "Proceedings">>
      [] tag = "inbook"        -> <<4, "Chapter in a Book">>
      [] tag = "article"       -> <<5, "Journal Articles">>
      [] tag = "inproceedings" -> <<6, "Papers">>
      [] tag = "conference"    -> <<7, "Papers">>
      [] tag = "phdthesis"     -> <<8, "PhD Thesis">>
      [] tag = "mastersthesis" -> <<9, "Master Thesis">>
      [] tag = "techreport"    -> <<10, "Technical Report">>
      [] tag = "manual"        -> <<11, "Manual">>
      [] tag = "misc"          -> <<12, "Other Publications">>
      [] tag = "unpublished"   -> <<13, "Unpublished">>
      [] OTHER                 -> <<100, tag>>

DocumentedTags ==
    {"book", "incollection", "booklet", "proceedings", "inbook", "article",
     "inproceedings", "conference", "phdthesis", "mastersthesis", "techreport",
     "manual", "misc", "unpublished"}

\* C3: the entry pair of every published record is the documented
\* (rank, label) of its entry's type tag, and (100, tag) for any other tag.
C3_Classification ==
    pc = "published" =>
        \A i \in 1..Len(Published) :
            Published[i].entry = DocumentedType(ParsedEntry(Published[i].key).type)

C3_Witness ==
    /\ pc = "published"
    /\ \E i, j \in 1..Len(Published) :
          /\ ParsedEntry(Published[i].key).type = "article"
          /\ Published[i].entry = <<5, "Journal Articles">>
          /\ ParsedEntry(Published[j].key).type = "unknownkind"
          /\ Published[j].entry = <<100, "unknownkind">>

IsBrace(c) == c \in {"{", "}"}

\* one left-to-right pass deleting \{ and \} and every other brace
RECURSIVE StripScan(_)
StripScan(text) ==
    IF text = <<>> THEN <<>>
    ELSE IF Len(text) >= 2 /\ text[1] = "\\" /\ IsBrace(text[2])
         THEN StripScan(SubSeq(text, 3, Len(text)))
    ELSE IF IsBrace(text[1]) THEN StripScan(Tail(text))
    ELSE <<text[1]>> \o StripScan(Tail(text))

\* C5: the record's text has no brace and is the rendered text with exactly
\* its \{ and \} sequences and its other braces deleted.
C5_StrippingLaw ==
    pc = "published" =>
        \A i \in 1..Len(Published) :
            LET r == Published[i]
            IN  /\ \A n \in 1..Len(r.text) : ~IsBrace(r.text[n])
                /\ r.text = StripScan(ParsedEntry(r.key).rendered)

\* C6: the published list has one record per formatter-yielded entry, in
\* the yielded order, each built from the parsed entry of that key.
C6_FormatterOrder ==
    pc = "published" =>
        /\ Len(Published) = Len(fmt_order)
        /\ \A i \in 1..Len(fmt_order) :
              LET r == Published[i]
                  e == ParsedEntry(fmt_order[i])
              IN  /\ r.key = fmt_order[i]
                  /\ r.bibtex = [type |-> e.type, key |-> fmt_order[i],
                                 fields |-> e.fields]
                  /\ \A f \in DefaultedFields : r[f] = ValueOrEmpty(e, f)

C6_Witness ==
    /\ pc = "published"
    /\ Len(Published) = 2
    /\ fmt_order = <<"k2", "k1">>
    /\ Published[1].entry[1] > Published[2].entry[1]
    /\ Published[1].key = "k2"

\* C7: a failed import logs exactly one warning; a parse failure logs exactly
\* one warning carrying the file path and the failure detail; an absent
\* setting logs nothing.
C7_Warnings ==
    /\ pc = "skipped_nosrc" => log = log0
    /\ pc = "skipped_import" =>
          /\ Len(log) = Len(log0) + 1
          /\ SubSeq(log, 1, Len(log0)) = log0
          /\ log[Len(log)].level = "WARNING"
    /\ pc = "skipped_parse" =>
          /\ Len(log) = Len(log0) + 1
          /\ SubSeq(log, 1, Len(log0)) = log0
          /\ log[Len(log)].level = "WARNING"
          /\ log[Len(log)].args = <<settings["PUBLICATIONS_SRC"], disk.err>>

C7_Witness ==
    /\ pc = "skipped_parse"
    /\ disk.err = "syntax error"
    /\ Len(log0) = 1

\* C8: when two invocations in a row publish from the same source, the
\* second leaves in the context the list the first one stored: it replaces
\* the prior value, whatever that was.
C8_Idempotent ==
    /\ \A i \in 1..Len(produced) :
          (i > 1 /\ produced[i].source = produced[i - 1].source)
              => produced[i].list = produced[i - 1].list
    /\ (pc = "published" /\ Len(produced) >= 2
          /\ produced[Len(produced)].source = produced[Len(produced) - 1].source)
              => Published = produced[Len(produced) - 1].list

C8_Witness ==
    /\ pc = "published"
    /\ Len(produced) = 2
    /\ produced[2].source = produced[1].source
    /\ Len(produced[1].list) = 2
    /\ Published = produced[1].list

C9_Rank(i) == Published[i].entry[1]

C9_Tag(i) == ParsedEntry(Published[i].key).type

\* C9: records of distinct known types have distinct ranks, every known
\* type ranks below 100, and a record of any other type has rank 100, so it
\* sorts after every record of a known type; every record has a pair.
C9_Ranks ==
    pc = "published" =>
        \A i, j \in 1..Len(Published) :
            /\ Len(Published[i].entry) = 2
            /\ C9_Tag(i) \in DocumentedTags => C9_Rank(i) < 100
            /\ C9_Tag(i) \notin DocumentedTags => C9_Rank(i) = 100
            /\ (C9_Tag(i) \in DocumentedTags /\ C9_Tag(j) \in DocumentedTags
                  /\ C9_Tag(i) # C9_Tag(j)) => C9_Rank(i) # C9_Rank(j)
            /\ (C9_Tag(i) \in DocumentedTags /\ C9_Tag(j) \notin DocumentedTags)
                  => C9_Rank(i) < C9_Rank(j)

C9_Witness ==
    /\ pc = "published"
    /\ \E i, j \in 1..Len(Published) :
          /\ C9_Tag(i) = "inproceedings"
          /\ C9_Tag(j) = "conference"
          /\ Published[i].entry[2] = Published[j].entry[2]

\* the records of every entry the formatter yields for the source on disk
CompleteList ==
    [i \in 1..Len(fmt_order) |->
        make_record(fmt_order[i], ParsedEntry(fmt_order[i]),
                    ParsedEntry(fmt_order[i]).rendered)]

C10_State ==
    /\ pc \in {"idle", "start", "imported", "loop", "raised"} \cup Skipped
          => context = ctx0
    /\ pc = "published" => context = store_publications(ctx0, CompleteList)

C10_Step ==
    context' # context => (pc = "loop" /\ todo = <<>> /\ pc' = "published")

====
